---- MODULE Spec2Model ----
(***************************************************************************)
(* Scrideo: the caption pipeline of helpers.py and its duplicate in app.py.*)
(*                                                                         *)
(* Three specifications share the variables below:                         *)
(*   SpecTime   the time codec (format_time, convert_time_srt_to_ass)      *)
(*   SpecSrt    caption-file generation (generate_srt, both copies)        *)
(*   SpecStyle  style resolution (convert_srt_to_ass, overlay_subtitles)   *)
(*   SpecMux    one overlay_subtitles call against an external encoder     *)
(*   SpecJobs   the server: request handlers, a worker thread and the      *)
(*              cleanup thread interleaved over the shared registries      *)
(*                                                                         *)
(* Numbers.  Python floats are modelled as rationals n/d (d > 0).          *)
(* The one place where the binary representation decides the result, a     *)
(* rounding tie, is a nondeterministic choice (variable tie), and so is    *)
(* the last-bit error of an inexact float operation (variable fp_err).     *)
(* Strings are sequences of one-character strings.                         *)
(***************************************************************************)
EXTENDS Integers, Sequences, FiniteSets, TLC

VARIABLES
    \* --- time codec ---
    seconds,        \* the float handed to format_time, a rational [n, d]
    tie,            \* how a rounding tie falls in this run: "down" or "up"
    srt_time,       \* result of helpers.format_time(seconds), or None
    app_srt_time,   \* result of app.format_time(seconds), or None
    ass_time,       \* result of convert_time_srt_to_ass(srt_time), or None
    \* --- caption file generation ---
    segments,       \* the transcript: a sequence of [words, start, end]
    fp_err,         \* the rounding error of an inexact float sum: -1, 0, 1
    srt_file,       \* cues written by helpers.generate_srt, or None
    job_stage,      \* position of process_video_task
    job_srt,        \* cues written by app.generate_srt in the job, or None
    \* --- style resolution ---
    caption_settings, \* the caller's style dict, or None
    ass_style,      \* Style record built by helpers.convert_srt_to_ass
    app_ass_style,  \* Style record built by app.overlay_subtitles
    \* --- muxing ---
    disk,           \* the files before the call: path |-> "missing", "empty", "data"
    encoder,        \* what the encoder does when run: [exit, output]
    helpers_overlay, \* outcome of helpers.overlay_subtitles, or None
    app_overlay,    \* outcome of app.overlay_subtitles, or None
    task,           \* outcome of process_video_task's embedding stage, or None
    \* --- server ---
    job_status,     \* dict job id -> status, in insertion order
    users,          \* dict username -> [history, favorites]
    user_jobs,      \* dict job id -> status of the finished job
    processing_lock, \* the threads inside "with processing_lock"
    files,          \* the files in UPLOAD_FOLDER and PROCESSED_FOLDER
    pc              \* where each thread is, with its local variables

vars == <<seconds, tie, srt_time, app_srt_time, ass_time,
          segments, fp_err, srt_file, job_stage, job_srt,
          caption_settings, ass_style, app_ass_style,
          disk, encoder, helpers_overlay, app_overlay, task,
          job_status, users, user_jobs, processing_lock, files, pc>>

timeVars == <<seconds, tie, srt_time, app_srt_time, ass_time>>
srtVars == <<segments, fp_err, srt_file, job_stage, job_srt>>
styleVars == <<caption_settings, ass_style, app_ass_style>>
muxVars == <<disk, encoder, helpers_overlay, app_overlay, task>>
jobsVars == <<job_status, users, user_jobs, processing_lock, files, pc>>
restVars == <<muxVars, jobsVars>>

\* Python's None, and a value that is present
None == <<>>

Some(v) == <<v>>

ValueError == <<"ValueError">>

IndexError == <<"IndexError">>

(***************************************************************************)
(* Floats.  A float is [n, d, e]: the rational n/d (d > 0) plus e times an *)
(* infinitesimal, e in {-1, 0, 1}.  e = 0 is a float that is exactly n/d;  *)
(* e # 0 is the result of an inexact operation that IEEE rounding left one *)
(* last bit below or above n/d.                                            *)
(***************************************************************************)
Rat(n, d) == [n |-> n, d |-> d, e |-> 0]

\* the float one rounding error away from x
Inexact(x, err) == [n |-> x.n, d |-> x.d, e |-> err]

Sgn(i) == IF i < 0 THEN -1 ELSE IF i > 0 THEN 1 ELSE 0

Abs(i) == IF i < 0 THEN -i ELSE i

RECURSIVE GCD(_, _)
GCD(a, b) == IF b = 0 THEN a ELSE GCD(b, a % b)

\* n/d in lowest terms, with the rounding error err
Reduced(n, d, err) ==
    LET g == GCD(Abs(n), d)
    IN  [n |-> n \div g, d |-> d \div g, e |-> err]

\* x < 0
IsNeg(x) == x.n < 0 \/ (x.n = 0 /\ x.e < 0)

\* math.floor(x); also x // 1
Floor(x) == (x.n \div x.d) - (IF x.n % x.d = 0 /\ x.e < 0 THEN 1 ELSE 0)

\* int(x): truncation towards zero
Trunc(x) ==
    IF IsNeg(x) THEN -Floor([n |-> -x.n, d |-> x.d, e |-> -x.e]) ELSE Floor(x)

\* x <= y
RatLe(x, y) ==
    \/ x.n * y.d < y.n * x.d
    \/ x.n * y.d = y.n * x.d /\ x.e <= y.e

\* x and y are the same number up to the rounding of the last bit
Near(x, y) == x.n * y.d = y.n * x.d

\* x == y
RatEq(x, y) == Near(x, y) /\ x.e = y.e

RatAdd(x, y) ==
    Reduced(x.n * y.d + y.n * x.d, x.d * y.d, Sgn(x.e + y.e))

RatSub(x, y) ==
    Reduced(x.n * y.d - y.n * x.d, x.d * y.d, Sgn(x.e - y.e))

\* min(x, y) of Python: the first argument unless the second is smaller
RatMin(x, y) == IF RatLe(x, y) THEN x ELSE y

\* round(x) for x >= 0; an exact tie falls as t says
RoundHalf(x, t) ==
    LET q == x.n \div x.d
        r == x.n % x.d
    IN  IF 2 * r < x.d THEN q
        ELSE IF 2 * r > x.d THEN q + 1
        ELSE IF x.e > 0 \/ (x.e = 0 /\ t = "up") THEN q + 1 ELSE q

(***************************************************************************)
(* Strings: str(int), zero-padded formats, replace, split, int(), float(). *)
(***************************************************************************)
DigitChars == <<"0", "1", "2", "3", "4", "5", "6", "7", "8", "9">>

IsDigit(c) == \E i \in 1..10 : DigitChars[i] = c

DigitVal(c) == (CHOOSE i \in 1..10 : DigitChars[i] = c) - 1

RECURSIVE NatStr(_)
NatStr(n) ==
    IF n < 10 THEN <<DigitChars[n + 1]>>
    ELSE NatStr(n \div 10) \o <<DigitChars[(n % 10) + 1]>>

RECURSIVE Zeros(_)
Zeros(k) == IF k <= 0 THEN <<>> ELSE <<"0">> \o Zeros(k - 1)

\* str(n), f"{n}"
IntStr(n) == IF n < 0 THEN <<"-">> \o NatStr(-n) ELSE NatStr(n)

\* f"{n:0<w>d}": sign first, then zeros up to a total width of w
FormatD(n, w) ==
    IF n < 0
    THEN <<"-">> \o Zeros(w - 1 - Len(NatStr(-n))) \o NatStr(-n)
    ELSE Zeros(w - Len(NatStr(n))) \o NatStr(n)

\* s.replace(a, b) for one-character a and b
Replace(s, a, b) == [i \in 1..Len(s) |-> IF s[i] = a THEN b ELSE s[i]]

\* s.split(sep) for a one-character sep
RECURSIVE Split(_, _)
Split(s, sep) ==
    IF \A i \in 1..Len(s) : s[i] # sep THEN <<s>>
    ELSE LET k == CHOOSE i \in 1..Len(s) :
                      s[i] = sep /\ \A j \in 1..(i - 1) : s[j] # sep
         IN  <<SubSeq(s, 1, k - 1)>> \o Split(SubSeq(s, k + 1, Len(s)), sep)

AllDigits(s) == Len(s) > 0 /\ \A i \in 1..Len(s) : IsDigit(s[i])

RECURSIVE DigitsVal(_)
DigitsVal(s) ==
    IF Len(s) = 0 THEN 0
    ELSE 10 * DigitsVal(SubSeq(s, 1, Len(s) - 1)) + DigitVal(s[Len(s)])

RECURSIVE Pow10(_)
Pow10(k) == IF k = 0 THEN 1 ELSE 10 * Pow10(k - 1)

\* int(s) accepts an optional sign and digits
IntOk(s) ==
    \/ AllDigits(s)
    \/ Len(s) > 1 /\ s[1] = "-" /\ AllDigits(Tail(s))

ParseInt(s) == IF s[1] = "-" THEN -DigitsVal(Tail(s)) ELSE DigitsVal(s)

\* float(s) for the shapes the code can produce: digits "." digits
FloatOk(s) ==
    LET p == Split(s, ".")
    IN  Len(p) = 2 /\ AllDigits(p[1]) /\ AllDigits(p[2])

ParseFloat(s) ==
    LET p == Split(s, ".")
    IN  Rat(DigitsVal(p[1]) * Pow10(Len(p[2])) + DigitsVal(p[2]), Pow10(Len(p[2])))

\* f"{x:05.2f}" for x >= 0: two decimals, zero-padded to a width of 5
FormatF2(x, t) ==
    LET c == RoundHalf(Rat(x.n * 100, x.d), t)
        body == NatStr(c \div 100) \o <<".">> \o FormatD(c % 100, 2)
    IN  Zeros(5 - Len(body)) \o body

(***************************************************************************)
(* The time codec.                                                         *)
(***************************************************************************)
SecondsPerHour == 3600
SecondsPerMinute == 60
MillisPerSecond == 1000

\* (seconds - int(seconds)) * 1000, as a rational
FracMillis(x) ==
    [n |-> (x.n - Trunc(x) * x.d) * MillisPerSecond, d |-> x.d, e |-> x.e]

TimeStr(hours, minutes, secs, millis) ==
    FormatD(hours, 2) \o <<":">> \o FormatD(minutes, 2) \o <<":">>
        \o FormatD(secs, 2) \o <<",">> \o FormatD(millis, 3)

\* helpers.format_time
format_time(x, t) ==
    LET s == IF IsNeg(x) THEN Rat(0, 1) ELSE x
        hours == Floor(s) \div SecondsPerHour
        minutes == (Floor(s) % SecondsPerHour) \div SecondsPerMinute
        secs == Floor(s) % SecondsPerMinute
        fm == FracMillis(s)
        millis == RoundHalf(fm, t)
    IN  TimeStr(hours, minutes, secs, millis)

\* app.format_time: no clamp, int() instead of round()
app_format_time(x) ==
    LET hours == Floor(x) \div SecondsPerHour
        minutes == (Floor(x) % SecondsPerHour) \div SecondsPerMinute
        secs == Floor(x) % SecondsPerMinute
        fm == FracMillis(x)
        millis == Trunc(fm)
    IN  TimeStr(hours, minutes, secs, millis)

\* helpers.convert_time_srt_to_ass; ValueError when int() or float() raises
convert_time_srt_to_ass(time_str, t) ==
    LET parts == Split(Replace(time_str, ",", "."), ":")
    IN  IF Len(parts) < 3 THEN IndexError
        ELSE IF ~(IntOk(parts[1]) /\ IntOk(parts[2]) /\ FloatOk(parts[3]))
        THEN ValueError
        ELSE LET hours == ParseInt(parts[1])
                 minutes == ParseInt(parts[2])
                 secs == ParseFloat(parts[3])
             IN  IntStr(hours) \o <<":">> \o FormatD(minutes, 2) \o <<":">>
                     \o FormatF2(secs, t)

(***************************************************************************)
(* SpecTime: the time codec applied to one input.                          *)
(***************************************************************************)
\* resolution of the inputs: ticks per millisecond
TicksPerMilli == 4

TicksPerSecond == TicksPerMilli * MillisPerSecond

SecondsPerDay == 86400

\* whole seconds at the field boundaries of [0, 86400)
WholeSeconds ==
    {0, 1, SecondsPerMinute - 1, SecondsPerHour - 1, SecondsPerHour,
     SecondsPerDay - 1}

\* every sub-second offset at the model's resolution, on each whole second,
\* and some negative inputs
TimeInputs ==
    {Rat(w * TicksPerSecond + f, TicksPerSecond) :
        w \in WholeSeconds, f \in 0..(TicksPerSecond - 1)}
    \cup {Rat(-f, TicksPerSecond) :
             f \in {1, TicksPerSecond \div 2, TicksPerSecond,
                    3 * TicksPerSecond + 1}}

Ties == {"down", "up"}

SrtIdle ==
    /\ segments = <<>>
    /\ fp_err = 0
    /\ srt_file = None
    /\ job_stage = "idle"
    /\ job_srt = None

StyleIdle ==
    /\ caption_settings = None
    /\ ass_style = None
    /\ app_ass_style = None

TimeIdle ==
    /\ seconds = Rat(0, 1)
    /\ tie = "down"
    /\ srt_time = None
    /\ app_srt_time = None
    /\ ass_time = None

MuxIdle ==
    /\ disk = <<>>
    /\ encoder = <<>>
    /\ helpers_overlay = None
    /\ app_overlay = None
    /\ task = None

JobsIdle ==
    /\ job_status = <<>>
    /\ users = <<>>
    /\ user_jobs = <<>>
    /\ processing_lock = {}
    /\ files = {}
    /\ pc = <<>>

RestIdle == MuxIdle /\ JobsIdle

InitTime ==
    /\ seconds \in TimeInputs
    /\ tie \in Ties
    /\ srt_time = None
    /\ app_srt_time = None
    /\ ass_time = None
    /\ SrtIdle
    /\ StyleIdle
    /\ RestIdle

\* helpers.format_time(seconds)
FormatTime ==
    /\ srt_time = None
    /\ srt_time' = Some(format_time(seconds, tie))
    /\ UNCHANGED <<seconds, tie, app_srt_time, ass_time, srtVars, styleVars, restVars>>

\* app.format_time(seconds)
AppFormatTime ==
    /\ app_srt_time = None
    /\ app_srt_time' = Some(app_format_time(seconds))
    /\ UNCHANGED <<seconds, tie, srt_time, ass_time, srtVars, styleVars, restVars>>

\* helpers.convert_time_srt_to_ass(srt_time)
ConvertTime ==
    /\ srt_time # None
    /\ ass_time = None
    /\ ass_time' = Some(convert_time_srt_to_ass(srt_time[1], tie))
    /\ UNCHANGED <<seconds, tie, srt_time, app_srt_time, srtVars, styleVars, restVars>>

NextTime == FormatTime \/ AppFormatTime \/ ConvertTime

SpecTime == InitTime /\ [][NextTime]_vars

(***************************************************************************)
(* Claims about the time codec (checked under SpecTime).                   *)
(***************************************************************************)
\* the shape HH:MM:SS,mmm: two-digit hours, minutes and seconds in 00..59,
\* a millisecond field of exactly three digits
IsCaptionTime(str) ==
    /\ Len(str) = 12
    /\ str[3] = ":" /\ str[6] = ":" /\ str[9] = ","
    /\ \A i \in {1, 2, 4, 5, 7, 8, 10, 11, 12} : IsDigit(str[i])
    /\ DigitsVal(SubSeq(str, 4, 5)) <= 59
    /\ DigitsVal(SubSeq(str, 7, 8)) <= 59

InDay(x) == x.n < SecondsPerDay * x.d

\* C5: for every s in [0, 86400), and for negative s, format_time (either
\* copy) returns a string of exactly the shape HH:MM:SS,mmm.
C5_FormatTimeShape ==
    /\ (srt_time # None /\ InDay(seconds)) => IsCaptionTime(srt_time[1])
    /\ (app_srt_time # None /\ InDay(seconds)) => IsCaptionTime(app_srt_time[1])

\* the shape H:MM:SS.ss: unpadded hours, minutes in 00..59, a two-decimal
\* seconds field below 60
IsMarkupTime(str) ==
    LET parts == Split(str, ":")
    IN  /\ Len(parts) = 3
        /\ AllDigits(parts[1])
        /\ (Len(parts[1]) > 1 => parts[1][1] # "0")
        /\ Len(parts[2]) = 2 /\ AllDigits(parts[2])
        /\ DigitsVal(parts[2]) <= 59
        /\ Len(parts[3]) = 5 /\ parts[3][3] = "."
        /\ \A i \in {1, 2, 4, 5} : IsDigit(parts[3][i])
        /\ DigitsVal(SubSeq(parts[3], 1, 2)) <= 59

\* the instant a well-formed markup time denotes, in centiseconds
MarkupCentis(str) ==
    LET parts == Split(str, ":")
    IN  (DigitsVal(parts[1]) * SecondsPerHour
            + DigitsVal(parts[2]) * SecondsPerMinute
            + DigitsVal(SubSeq(parts[3], 1, 2))) * 100
        + DigitsVal(SubSeq(parts[3], 4, 5))

\* str is what formatting some s' directly in markup format gives, for an
\* s' within the caption format's rounding (half a millisecond) of x:
\* the two-decimal rounding of s' is at most half a centisecond from s'
IsMarkupTimeOf(str, x) ==
    /\ IsMarkupTime(str)
    /\ 2 * Abs(MarkupCentis(str) * 10 * x.d - x.n * MillisPerSecond)
           <= 11 * x.d

\* C6: for every s >= 0, convert_time_srt_to_ass(format_time(s)) is the
\* H:MM:SS.ss timestamp of s (minutes 00..59, seconds below 60), up to the
\* caption format's millisecond rounding.
C6_RoundTripIsMarkupTime ==
    (ass_time # None /\ seconds.n >= 0 /\ InDay(seconds))
        => IsMarkupTimeOf(ass_time[1], seconds)

(***************************************************************************)
(* Caption-file generation.  A segment is [words, start, end]: words is    *)
(* text.strip().split(), the empty sequence for blank text.  A cue is one  *)
(* record of the file: the index line, the two values handed to            *)
(* format_time with the timestamps written for them, and the text line as  *)
(* its words; seg (not in the file) is the segment the cue was written for.*)
(***************************************************************************)
max_words == 7

Min(a, b) == IF a <= b THEN a ELSE b

\* [words[i:i + max_words] for i in range(0, len(words), max_words)]
Chunks(words) ==
    [k \in 1..((Len(words) + max_words - 1) \div max_words) |->
        SubSeq(words, (k - 1) * max_words + 1, Min(k * max_words, Len(words)))]

\* chunk_dur with the duration shared out per word instead of per chunk
chunk_dur_per_word(seg, chunks) ==
    LET total_dur == RatSub(seg.end, seg.start)
    IN  Rat(total_dur.n, total_dur.d * Len(seg.words))

\* chunk_dur = total_dur / len(chunks), total_dur = seg['end'] - seg['start']
chunk_dur(seg, chunks) ==
    LET total_dur == RatSub(seg.end, seg.start)
    IN  Rat(total_dur.n, total_dur.d * Len(chunks))

\* x is a binary fraction (with at most 10 binary places): floats hold it,
\* and its small multiples and sums, exactly
IsDyadic(x) == \E p \in {1, 2, 4, 8, 16, 32, 64, 128, 256, 512, 1024} :
                   (x.n * p) % x.d = 0

\* the float seg['start'] + k * chunk_dur: exact when start and chunk_dur
\* are binary fractions, else within one rounding error (err) of the exact
\* sum
Boundary(seg, k, cd, err) ==
    IF k = 0 \/ (IsDyadic(seg.start) /\ IsDyadic(cd)) THEN
        RatAdd(seg.start, Rat(k * cd.n, cd.d))
    ELSE Inexact(RatAdd(seg.start, Rat(k * cd.n, cd.d)), err)

\* start = seg['start'] + i * chunk_dur
chunk_start(seg, i, cd, err) == Boundary(seg, i, cd, err)

\* end = min(seg['start'] + (i + 1) * chunk_dur, seg['end'])
chunk_end(seg, i, cd, err) == RatMin(Boundary(seg, i + 1, cd, err), seg.end)

\* next_idx with the increment forgotten
next_idx_stuck(idx) == idx

\* idx += 1
next_idx(idx) == idx + 1

\* the three lines helpers.generate_srt writes for one cue
Cue(idx, start, end, words, j, t) ==
    [idx |-> idx, start |-> start, end |-> end,
     start_str |-> format_time(start, t), end_str |-> format_time(end, t),
     words |-> words, seg |-> j]

\* one iteration of the loop of helpers.generate_srt: the cues written for
\* segment j, numbered from idx
SegmentCues(seg, j, idx, t, err) ==
    IF Len(seg.words) = 0 THEN <<>>
    ELSE IF Len(seg.words) <= max_words
    THEN <<Cue(idx, seg.start, seg.end, seg.words, j, t)>>
    ELSE LET chunks == Chunks(seg.words)
             cd == chunk_dur(seg, chunks)
             RECURSIVE Number(_, _)
             Number(i, n) ==
                 IF i >= Len(chunks) THEN <<>>
                 ELSE <<Cue(n, chunk_start(seg, i, cd, err),
                            chunk_end(seg, i, cd, err), chunks[i + 1], j, t)>>
                      \o Number(i + 1, next_idx(n))
         IN  Number(0, idx)

\* idx after the cues of one segment
RECURSIVE IdxAfter(_, _)
IdxAfter(idx, n) == IF n = 0 THEN idx ELSE IdxAfter(next_idx(idx), n - 1)

RECURSIVE WriteSegments(_, _, _, _, _)
WriteSegments(segs, j, idx, t, err) ==
    IF j > Len(segs) THEN <<>>
    ELSE LET cues == SegmentCues(segs[j], j, idx, t, err)
         IN  cues \o WriteSegments(segs, j + 1, IdxAfter(idx, Len(cues)), t, err)

\* helpers.generate_srt: the file's cues
generate_srt(segs, t, err) == WriteSegments(segs, 1, 1, t, err)

\* the three lines app.generate_srt writes for one cue
AppCue(idx, seg, j) ==
    [idx |-> idx, start |-> seg.start, end |-> seg.end,
     start_str |-> app_format_time(seg.start),
     end_str |-> app_format_time(seg.end),
     words |-> seg.words, seg |-> j]

RECURSIVE AppWriteSegments(_, _, _)
AppWriteSegments(segs, j, idx) ==
    IF j > Len(segs) THEN <<>>
    ELSE IF Len(segs[j].words) = 0 THEN AppWriteSegments(segs, j + 1, idx)
    ELSE <<AppCue(idx, segs[j], j)>>
             \o AppWriteSegments(segs, j + 1, next_idx(idx))

\* app.generate_srt: the file's cues
app_generate_srt(segs) == AppWriteSegments(segs, 1, 1)

(***************************************************************************)
(* SpecSrt: one transcript, written by helpers.generate_srt and by the job *)
(* pipeline (process_video_task, which calls app.generate_srt).            *)
(***************************************************************************)
MaxSegments == 3
MaxWords == 15
MaxDuration == 14

Words(n) == [k \in 1..n |-> k]

WordCounts == {0, 2, max_words, max_words + 1, MaxWords}

Durations == {0, MaxDuration}

\* the transcript of the end-to-end example: "hello world" 0.0-1.0 and
\* "a b c d e f g h i" 1.0-3.0
ExampleSegments ==
    <<[words |-> Words(2), start |-> Rat(0, 1), end |-> Rat(1, 1)],
      [words |-> Words(9), start |-> Rat(1, 1), end |-> Rat(3, 1)]>>

\* a transcript on which the floats of helpers.generate_srt round down:
\* 15 words from 0.1 to 1.0
RoundingExample ==
    <<[words |-> Words(2 * max_words + 1),
       start |-> Rat(1, 10), end |-> Rat(1, 1)]>>

\* consecutive segments from time 0: segment j has ws[j] words and lasts
\* ds[j] seconds
RECURSIVE StartOf(_, _)
StartOf(ds, j) == IF j = 1 THEN 0 ELSE StartOf(ds, j - 1) + ds[j - 1]

Transcript(ws, ds) ==
    [j \in 1..Len(ws) |->
        [words |-> Words(ws[j]),
         start |-> Rat(StartOf(ds, j), 1),
         end |-> Rat(StartOf(ds, j) + ds[j], 1)]]

\* an inexact float result is the nearest float below or above the exact
\* value, or the exact value itself
RoundingErrors == {-1, 0, 1}

Transcripts ==
    {ExampleSegments, RoundingExample} \cup
    UNION {{Transcript(ws, ds) :
               ws \in [1..n -> WordCounts], ds \in [1..n -> Durations]} :
           n \in 0..MaxSegments}

InitSrt ==
    /\ segments \in Transcripts
    /\ fp_err \in RoundingErrors
    /\ tie = "down"
    /\ srt_file = None
    /\ job_stage = "start"
    /\ job_srt = None
    /\ seconds = Rat(0, 1)
    /\ srt_time = None
    /\ app_srt_time = None
    /\ ass_time = None
    /\ StyleIdle
    /\ RestIdle

\* helpers.generate_srt(segments, srt_path)
GenerateSrt ==
    /\ srt_file = None
    /\ srt_file' = Some(generate_srt(segments, tie, fp_err))
    /\ UNCHANGED <<segments, fp_err, job_stage, job_srt, timeVars, styleVars, restVars>>

\* process_video_task: job_status[job_id] = {'status': 'transcribing'}
JobStart ==
    /\ job_stage = "start"
    /\ job_stage' = "transcribing"
    /\ UNCHANGED <<segments, fp_err, srt_file, job_srt, timeVars, styleVars, restVars>>

\* process_video_task: whisper returned result['segments'] = segments
JobTranscribed ==
    /\ job_stage = "transcribing"
    /\ job_stage' = "generating_captions"
    /\ UNCHANGED <<segments, fp_err, srt_file, job_srt, timeVars, styleVars, restVars>>

\* process_video_task: generate_srt(result["segments"], srt_path), then
\* job_status[job_id] = {'status': 'embedding_subtitles'}
JobGenerateSrt ==
    /\ job_stage = "generating_captions"
    /\ job_srt' = Some(app_generate_srt(segments))
    /\ job_stage' = "embedding_subtitles"
    /\ UNCHANGED <<segments, fp_err, srt_file, timeVars, styleVars, restVars>>

NextSrt == GenerateSrt \/ JobStart \/ JobTranscribed \/ JobGenerateSrt

SpecSrt == InitSrt /\ [][NextSrt]_vars

(***************************************************************************)
(* Claims about caption-file generation (checked under SpecSrt).           *)
(***************************************************************************)
\* the cues of file f written for segment j, in file order
CuesOf(f, j) == SelectSeq(f, LAMBDA c : c.seg = j)

IsSplit(seg) == Len(seg.words) > max_words

Duration(c) == RatSub(c.end, c.start)

RECURSIVE SumDurations(_)
SumDurations(cs) ==
    IF Len(cs) = 0 THEN Rat(0, 1)
    ELSE RatAdd(Duration(cs[1]), SumDurations(Tail(cs)))

RECURSIVE ConcatWords(_)
ConcatWords(cs) ==
    IF Len(cs) = 0 THEN <<>> ELSE cs[1].words \o ConcatWords(Tail(cs))

WordLens(f) == [i \in 1..Len(f) |-> Len(f[i].words)]

\* C1: in the job pipeline every segment of more than 7 words is split into
\* cues of at most 7 words; the two-segment example gives 3 cues of 2, 7
\* and 2 words.
C1_JobSplitsLongSegments ==
    job_srt # None =>
        /\ \A i \in 1..Len(job_srt[1]) : Len(job_srt[1][i].words) <= max_words
        /\ segments = ExampleSegments => WordLens(job_srt[1]) = <<2, 7, 2>>

\* C2 (as stated): the chunks of a split segment last in proportion to
\* their share of the segment's words, and their durations sum to the
\* segment's duration (both up to the rounding of the floats' last bit).
C2_DurationsProportional ==
    srt_file # None =>
        \A j \in 1..Len(segments) : IsSplit(segments[j]) =>
            LET cs == CuesOf(srt_file[1], j)
                total == RatSub(segments[j].end, segments[j].start)
            IN  /\ \A i \in 1..Len(cs) :
                       Near(Rat(Duration(cs[i]).n * Len(segments[j].words),
                                 Duration(cs[i]).d),
                             Rat(total.n * Len(cs[i].words), total.d))
                /\ Near(SumDurations(cs), total)

\* C2 (amended): the N chunks of a split segment each last one N-th of the
\* segment's duration, whatever their word counts, and their durations sum
\* to the segment's duration (both up to the rounding of the floats' last
\* bit).
C2_DurationsEqual ==
    srt_file # None =>
        \A j \in 1..Len(segments) : IsSplit(segments[j]) =>
            LET cs == CuesOf(srt_file[1], j)
                total == RatSub(segments[j].end, segments[j].start)
            IN  /\ \A i \in 1..Len(cs) :
                       Near(Rat(Duration(cs[i]).n * Len(cs), Duration(cs[i]).d),
                             total)
                /\ Near(SumDurations(cs), total)

\* a 15-word segment lasting 14 s has been written as 7, 7 and 1 words
C2_Witness ==
    /\ srt_file # None
    /\ \E j \in 1..Len(segments) :
          /\ Len(segments[j].words) = 2 * max_words + 1
          /\ Near(RatSub(segments[j].end, segments[j].start), Rat(14, 1))
          /\ WordLens(CuesOf(srt_file[1], j)) = <<max_words, max_words, 1>>

\* C3: the cues of a split segment tile it: the first starts at the
\* segment's start, each ends where the next starts, the last ends at the
\* segment's end (as float values, up to the rounding of the last bit, and
\* as the timestamps written to the file), none ends after the segment's
\* end, and their words in order are the segment's words.
C3_CuesTileSegment ==
    srt_file # None =>
        \A j \in 1..Len(segments) : IsSplit(segments[j]) =>
            LET cs == CuesOf(srt_file[1], j)
                seg == segments[j]
            IN  /\ Len(cs) > 1
                /\ Near(cs[1].start, seg.start)
                /\ cs[1].start_str = format_time(seg.start, tie)
                /\ \A i \in 1..(Len(cs) - 1) :
                       /\ Near(cs[i].end, cs[i + 1].start)
                       /\ cs[i].end_str = cs[i + 1].start_str
                /\ Near(cs[Len(cs)].end, seg.end)
                /\ cs[Len(cs)].end_str = format_time(seg.end, tie)
                /\ \A i \in 1..Len(cs) : RatLe(cs[i].end, seg.end)
                /\ ConcatWords(cs) = seg.words

\* the cue indices of file f are 1..K in file order, no cue was written
\* for a blank segment, and every other segment has its cues
IndicesContiguous(f) ==
    /\ \A i \in 1..Len(f) : f[i].idx = i
    /\ \A j \in 1..Len(segments) :
          (Len(segments[j].words) = 0) <=> (Len(CuesOf(f, j)) = 0)
    /\ \A i \in 1..(Len(f) - 1) : f[i].seg <= f[i + 1].seg

Absent == "<absent>"

StyleKeys ==
    <<"size", "color", "bgColor", "font", "fontStyle", "position",
      "alignment", "outlineThickness", "shadowDistance">>

KeySet == {StyleKeys[i] : i \in 1..Len(StyleKeys)}

\* {}
EmptyDict == [k \in KeySet |-> Absent]

\* d.get(k, default)
Get(d, k, default) == IF d[k] = Absent THEN default ELSE d[k]

\* m.get(k, default) for a lookup table m
Lookup(m, k, default) == IF k \in DOMAIN m THEN m[k] ELSE default

COLOR_MAP ==
    ("white" :> "00FFFFFF") @@ ("yellow" :> "0000FFFF") @@
    ("cyan" :> "00FFFF00") @@ ("lime" :> "0000FF00") @@
    ("orange" :> "0000A5FF") @@ ("red" :> "000000FF") @@
    ("pink" :> "00CBC0FF") @@ ("purple" :> "00F020A0") @@
    ("light-blue" :> "00E6D8AD") @@ ("light-green" :> "0090EE90")

app_color_map ==
    ("white" :> "00FFFFFF") @@ ("yellow" :> "0000FFFF") @@
    ("cyan" :> "00FFFF00") @@ ("lime" :> "0000FF00") @@
    ("orange" :> "0000A5FF") @@ ("red" :> "000000FF") @@
    ("pink" :> "00FFC0CB") @@ ("purple" :> "00A020F0") @@
    ("light-blue" :> "00E6D8AD") @@ ("light-green" :> "0090EE90")

\* BG_COLOR_MAP of helpers.py; bg_color_map of app.py holds the same entries
BG_COLOR_MAP ==
    ("none" :> "FF000000") @@ ("black" :> "00000000") @@
    ("dark-gray" :> "00333333") @@ ("semi-transparent" :> "80000000") @@
    ("dark-blue" :> "00800000") @@ ("dark-red" :> "00000080") @@
    ("dark-green" :> "00008000") @@ ("dark-purple" :> "00800080") @@
    ("navy" :> "00800000") @@ ("charcoal" :> "00363636")

\* FONT_MAP of helpers.py; font_map of app.py holds the same entries
FONT_MAP ==
    ("arial" :> "Arial") @@ ("helvetica" :> "Helvetica") @@
    ("times-new-roman" :> "Times New Roman") @@
    ("courier-new" :> "Courier New") @@ ("verdana" :> "Verdana") @@
    ("georgia" :> "Georgia") @@ ("impact" :> "Impact") @@
    ("comic-sans" :> "Comic Sans MS") @@ ("trebuchet" :> "Trebuchet MS") @@
    ("arial-black" :> "Arial Black") @@ ("palatino" :> "Palatino Linotype")

\* position_map of helpers.get_ass_alignment_and_margins
position_map ==
    ("top-left" :> <<7, "40", "10", "20">>) @@
    ("top" :> <<8, "10", "10", "20">>) @@
    ("top-right" :> <<9, "10", "40", "20">>) @@
    ("middle-left" :> <<4, "40", "10", "0">>) @@
    ("middle" :> <<5, "10", "10", "0">>) @@
    ("middle-right" :> <<6, "10", "40", "0">>) @@
    ("bottom-left" :> <<1, "40", "10", "20">>) @@
    ("bottom" :> <<2, "10", "10", "20">>) @@
    ("bottom-right" :> <<3, "10", "40", "20">>)

\* position_map of app.overlay_subtitles
app_position_map ==
    ("bottom" :> <<2, "10", "10", "20">>) @@
    ("top" :> <<8, "10", "10", "20">>) @@
    ("bottom-left" :> <<1, "40", "10", "20">>) @@
    ("bottom-right" :> <<3, "10", "40", "20">>) @@
    ("top-left" :> <<7, "40", "10", "20">>) @@
    ("top-right" :> <<9, "10", "40", "20">>) @@
    ("middle" :> <<5, "10", "10", "0">>)

outline_map ==
    ("none" :> "0") @@ ("thin" :> "1") @@ ("medium" :> "2") @@
    ("thick" :> "3") @@ ("extra-thick" :> "4")

shadow_map ==
    ("none" :> "0") @@ ("subtle" :> "1") @@ ("medium" :> "2") @@
    ("large" :> "3") @@ ("extra-large" :> "4")

RowPositions == {"top", "middle", "bottom"}

\* get_ass_alignment_and_margins with the two shifts exchanged
get_ass_alignment_and_margins_mirrored(position, text_alignment) ==
    LET base_position == Lookup(position_map, position, <<2, "10", "10", "20">>)
    IN  IF position \in RowPositions
        THEN IF text_alignment = "left"
             THEN <<base_position[1] + 1, "40", "10", base_position[4]>>
             ELSE IF text_alignment = "right"
             THEN <<base_position[1] - 1, "10", "40", base_position[4]>>
             ELSE <<base_position[1], "10", "10", base_position[4]>>
        ELSE base_position

\* helpers.get_ass_alignment_and_margins:
\* (alignment_code, margin_left, margin_right, margin_vertical)
get_ass_alignment_and_margins(position, text_alignment) ==
    LET base_position == Lookup(position_map, position, <<2, "10", "10", "20">>)
    IN  IF position \in RowPositions
        THEN IF text_alignment = "left"
             THEN <<base_position[1] - 1, "40", "10", base_position[4]>>
             ELSE IF text_alignment = "right"
             THEN <<base_position[1] + 1, "10", "40", base_position[4]>>
             ELSE <<base_position[1], "10", "10", base_position[4]>>
        ELSE base_position

\* app.overlay_subtitles, "Get position settings" and "Adjust alignment"
app_alignment_and_margins(position, alignment) ==
    LET base == Lookup(app_position_map, position, <<2, "10", "10", "20">>)
    IN  IF position \in RowPositions /\ alignment = "left"
        THEN <<base[1] - 1, "40", "10", base[4]>>
        ELSE IF position \in RowPositions /\ alignment = "right"
        THEN <<base[1] + 1, "10", "40", base[4]>>
        ELSE base

\* has_background with only the table's colours counting as a background
has_background_listed(bg_color_name) ==
    bg_color_name \in DOMAIN BG_COLOR_MAP \ {"none"}

\* helpers.convert_srt_to_ass: has_background = bg_color_name != 'none'
has_background(bg_color_name) == bg_color_name # "none"

\* app.overlay_subtitles: has_background = bg_color != 'none'
app_has_background(bg_color) == bg_color # "none"

\* the font styles the model sends, and which of them contain a token
\* ('bold' in font_style)
FontStyles == {"normal", "bold", "italic", "bold italic"}

Contains(font_style, token) ==
    \/ font_style = token
    \/ font_style = "bold italic" /\ token \in {"bold", "italic"}

\* str.lower() on the font names the model sends
Lower(str) == IF str = "Arial" THEN "arial" ELSE str

\* the dict helpers.convert_srt_to_ass uses when caption_settings is None
helpers_default_settings ==
    [k \in KeySet |->
        IF k = "size" THEN "20"
        ELSE IF k = "color" THEN "white"
        ELSE IF k = "bgColor" THEN "none"
        ELSE IF k = "font" THEN "arial"
        ELSE IF k = "position" THEN "bottom"
        ELSE IF k = "alignment" THEN "center"
        ELSE Absent]

\* helpers.convert_srt_to_ass: the fields of the Style line
convert_srt_to_ass(settings) ==
    LET cs == IF settings = None THEN helpers_default_settings ELSE settings[1]
        font_size == Get(cs, "size", "20")
        color_name == Get(cs, "color", "white")
        bg_color_name == Get(cs, "bgColor", "none")
        font_family == Lookup(FONT_MAP, Get(cs, "font", "arial"), "Arial")
        font_style == Get(cs, "fontStyle", "normal")
        position == Get(cs, "position", "bottom")
        text_alignment == Get(cs, "alignment", "center")
        am == get_ass_alignment_and_margins(position, text_alignment)
    IN  [Fontname |-> font_family,
         Fontsize |-> font_size,
         PrimaryColour |-> Lookup(COLOR_MAP, color_name, "00FFFFFF"),
         BackColour |-> Lookup(BG_COLOR_MAP, bg_color_name, "FF000000"),
         Bold |-> IF Contains(font_style, "bold") THEN -1 ELSE 0,
         Italic |-> IF Contains(font_style, "italic") THEN -1 ELSE 0,
         BorderStyle |-> IF has_background(bg_color_name) THEN "4" ELSE "1",
         Outline |-> "2",
         Shadow |-> IF has_background(bg_color_name) THEN "0" ELSE "1",
         Alignment |-> am[1],
         MarginL |-> am[2], MarginR |-> am[3], MarginV |-> am[4]]

\* app.overlay_subtitles: the fields of the Style line
overlay_subtitles(settings) ==
    LET cs == IF settings = None THEN EmptyDict ELSE settings[1]
        font_size == Get(cs, "size", "20")
        font_color == Get(cs, "color", "white")
        font_family == Get(cs, "font", "Arial")
        bg_color == Get(cs, "bgColor", "none")
        position == Get(cs, "position", "bottom")
        alignment == Get(cs, "alignment", "center")
        outline == Get(cs, "outlineThickness", "medium")
        shadow == Get(cs, "shadowDistance", "medium")
        font_style == Get(cs, "fontStyle", "normal")
        am == app_alignment_and_margins(position, alignment)
    IN  [Fontname |-> Lookup(FONT_MAP, Lower(font_family), font_family),
         Fontsize |-> font_size,
         PrimaryColour |-> Lookup(app_color_map, font_color, "00FFFFFF"),
         BackColour |-> Lookup(BG_COLOR_MAP, bg_color, "FF000000"),
         Bold |-> IF Contains(font_style, "bold") THEN -1 ELSE 0,
         Italic |-> IF Contains(font_style, "italic") THEN -1 ELSE 0,
         BorderStyle |-> IF app_has_background(bg_color) THEN "4" ELSE "1",
         Outline |-> IF app_has_background(bg_color) THEN "2"
                     ELSE Lookup(outline_map, outline, "2"),
         Shadow |-> IF app_has_background(bg_color) THEN "0"
                    ELSE Lookup(shadow_map, shadow, "2"),
         Alignment |-> am[1],
         MarginL |-> am[2], MarginR |-> am[3], MarginV |-> am[4]]

(***************************************************************************)
(* SpecStyle: one style configuration is resolved by both copies of the    *)
(* styling code.                                                           *)
(***************************************************************************)
MaxKeys == 3

Unknown == "unknown"

\* the values the model sends for each key
Options ==
    ("size" :> {"24"}) @@
    ("color" :> {"yellow", "pink", Unknown}) @@
    ("bgColor" :> {"none", "black", "semi-transparent", Unknown}) @@
    ("font" :> {"arial", "Arial", "impact", Unknown}) @@
    ("fontStyle" :> FontStyles) @@
    ("position" :> DOMAIN position_map \cup {Unknown}) @@
    ("alignment" :> {"left", "center", "right", Unknown}) @@
    ("outlineThickness" :> DOMAIN outline_map \cup {Unknown}) @@
    ("shadowDistance" :> DOMAIN shadow_map \cup {Unknown})

\* the dicts that set at most m of the keys StyleKeys[i], StyleKeys[i+1], ...
RECURSIVE Dicts(_, _)
Dicts(i, m) ==
    IF i > Len(StyleKeys) THEN {EmptyDict}
    ELSE Dicts(i + 1, m) \cup
         (IF m = 0 THEN {}
          ELSE {[d EXCEPT ![StyleKeys[i]] = v] :
                    v \in Options[StyleKeys[i]], d \in Dicts(i + 1, m - 1)})

StyleConfigs == {None} \cup {Some(d) : d \in Dicts(1, MaxKeys)}

InitStyle ==
    /\ caption_settings \in StyleConfigs
    /\ ass_style = None
    /\ app_ass_style = None
    /\ TimeIdle
    /\ SrtIdle
    /\ RestIdle

\* helpers.convert_srt_to_ass(srt_path, ass_path, caption_settings)
ConvertSrtToAss ==
    /\ ass_style = None
    /\ ass_style' = Some(convert_srt_to_ass(caption_settings))
    /\ UNCHANGED <<caption_settings, app_ass_style, timeVars, srtVars, restVars>>

\* app.overlay_subtitles(input_path, srt_path, output_path, caption_settings)
OverlaySubtitles ==
    /\ app_ass_style = None
    /\ app_ass_style' = Some(overlay_subtitles(caption_settings))
    /\ UNCHANGED <<caption_settings, ass_style, timeVars, srtVars, restVars>>

NextStyle == ConvertSrtToAss \/ OverlaySubtitles

SpecStyle == InitStyle /\ [][NextStyle]_vars

(***************************************************************************)
(* Claims about style resolution                                           *)
(***************************************************************************)
\* the configuration as the caller sent it
Sent == IF caption_settings = None THEN EmptyDict ELSE caption_settings[1]

\* the Style records written so far, by either copy
ResolvedStyles == {s[1] : s \in {ass_style, app_ass_style} \ {None}}

BothResolved == ass_style # None /\ app_ass_style # None

DocumentedDefault ==
    [Fontname |-> "Arial", Fontsize |-> "20",
     PrimaryColour |-> "00FFFFFF", BackColour |-> "FF000000",
     Bold |-> 0, Italic |-> 0,
     BorderStyle |-> "1", Outline |-> "2", Shadow |-> "2",
     Alignment |-> 2, MarginL |-> "10", MarginR |-> "10", MarginV |-> "20"]

\* C7: resolving an empty configuration, or no configuration, yields the
\* documented default style: white text, no background, Arial, size 20,
\* not bold, not italic, alignment code 2 with margins 10/10/20, border
\* mode 1, outline 2 and shadow 2.
C7_EmptyConfigIsDefault ==
    Sent = EmptyDict => \A st \in ResolvedStyles : st = DocumentedDefault

\* C8: whenever bgColor is anything other than "none" the resolved style has
\* BorderStyle 4, outline 2 and shadow 0 whatever outlineThickness and
\* shadowDistance are; for bgColor "none" or absent it has BorderStyle 1.
C8_BackgroundSelectsBorderMode ==
    \A st \in ResolvedStyles :
        IF Get(Sent, "bgColor", "none") # "none"
        THEN st.BorderStyle = "4" /\ st.Outline = "2" /\ st.Shadow = "0"
        ELSE st.BorderStyle = "1"

C8_Witness ==
    /\ BothResolved
    /\ Sent["bgColor"] = "black"
    /\ Sent["outlineThickness"] = "thick"
    /\ Sent["shadowDistance"] = "large"
    /\ ass_style[1].BorderStyle = "4"
    /\ app_ass_style[1].BorderStyle = "4"

\* alignment code and vertical margin of the three row anchors
RowAnchor ==
    ("top" :> <<8, "20">>) @@ ("middle" :> <<5, "0">>) @@
    ("bottom" :> <<2, "20">>)

Placement(st) == <<st.Alignment, st.MarginL, st.MarginR, st.MarginV>>

\* C9: for position top, middle or bottom, alignment "left" gives the row's
\* base code minus 1 with margins 40/10, "right" gives the base code plus 1
\* with margins 10/40, and "center" or any other value gives the base code
\* with margins 10/10; the row's vertical margin is kept in all three cases.
C9_RowAlignmentShift ==
    LET position == Get(Sent, "position", "bottom")
        alignment == Get(Sent, "alignment", "center")
    IN  position \in DOMAIN RowAnchor =>
            LET base == RowAnchor[position][1]
                margin_v == RowAnchor[position][2]
            IN  \A st \in ResolvedStyles :
                    Placement(st) =
                        IF alignment = "left"
                        THEN <<base - 1, "40", "10", margin_v>>
                        ELSE IF alignment = "right"
                        THEN <<base + 1, "10", "40", margin_v>>
                        ELSE <<base, "10", "10", margin_v>>

C9_Witness ==
    /\ BothResolved
    /\ Sent["position"] = "middle"
    /\ Sent["alignment"] = "right"
    /\ Placement(ass_style[1]) = <<6, "10", "40", "0">>
    /\ Placement(app_ass_style[1]) = <<6, "10", "40", "0">>

\* the 3x3 numpad grid, with the fixed margins of the six left/right zones
Numpad ==
    ("top-left" :> 7) @@ ("top" :> 8) @@ ("top-right" :> 9) @@
    ("middle-left" :> 4) @@ ("middle" :> 5) @@ ("middle-right" :> 6) @@
    ("bottom-left" :> 1) @@ ("bottom" :> 2) @@ ("bottom-right" :> 3)

LeftZones == {"top-left", "middle-left", "bottom-left"}

RightZones == {"top-right", "middle-right", "bottom-right"}

ZonePlacement(position) ==
    <<Numpad[position],
      IF position \in LeftZones THEN "40" ELSE "10",
      IF position \in RightZones THEN "40" ELSE "10",
      IF position \in {"middle-left", "middle-right"} THEN "0" ELSE "20">>

\* C10: each of the nine named positions resolves to its own cell of the
\* numpad grid, and for the six left/right zones the alignment code and the
\* margins are the zone's fixed values whatever the alignment field is.
C10_NinePositions ==
    LET position == Get(Sent, "position", "bottom")
        alignment == Get(Sent, "alignment", "center")
    IN  \A st \in ResolvedStyles :
            /\ position \in LeftZones \cup RightZones =>
                   Placement(st) = ZonePlacement(position)
            /\ position \in DOMAIN RowAnchor /\ alignment = "center" =>
                   st.Alignment = Numpad[position]

\* what C9 and C10 document for a row anchor and an alignment
RowPlacement(position, alignment) ==
    LET base == RowAnchor[position][1]
        margin_v == RowAnchor[position][2]
    IN  IF alignment = "left" THEN <<base - 1, "40", "10", margin_v>>
        ELSE IF alignment = "right" THEN <<base + 1, "10", "40", margin_v>>
        ELSE <<base, "10", "10", margin_v>>

NoBackground == Get(Sent, "bgColor", "none") = "none"

\* C11: resolution raises no error, and a value that is in no lookup table
\* resolves to the documented default of its field: white text, no
\* background colour, Arial, the bottom row, center alignment, and the
\* medium outline and shadow.
C11_UnknownValuesFallBack ==
    \A st \in ResolvedStyles :
        /\ Sent["color"] = Unknown => st.PrimaryColour = "00FFFFFF"
        /\ Sent["bgColor"] = Unknown => st.BackColour = "FF000000"
        /\ Sent["font"] = Unknown => st.Fontname = "Arial"
        /\ Sent["position"] = Unknown =>
               Placement(st) =
                   RowPlacement("bottom", Get(Sent, "alignment", "center"))
        /\ (Sent["alignment"] = Unknown
              /\ Get(Sent, "position", "bottom") \in DOMAIN RowAnchor) =>
               Placement(st) =
                   RowPlacement(Get(Sent, "position", "bottom"), "center")
        /\ (Sent["outlineThickness"] = Unknown /\ NoBackground) =>
               st.Outline = "2"
        /\ (Sent["shadowDistance"] = Unknown /\ NoBackground) =>
               st.Shadow = "2"

\* the option values the lookup tables and the branches of the code name;
\* a size is any number the caller sends
RecognisedValues ==
    ("size" :> Options["size"]) @@
    ("color" :> DOMAIN COLOR_MAP) @@
    ("bgColor" :> DOMAIN BG_COLOR_MAP) @@
    ("font" :> DOMAIN FONT_MAP) @@
    ("fontStyle" :> FontStyles) @@
    ("position" :> DOMAIN position_map) @@
    ("alignment" :> {"left", "center", "right"}) @@
    ("outlineThickness" :> DOMAIN outline_map) @@
    ("shadowDistance" :> DOMAIN shadow_map)

\* the configuration sets only recognised values (it may set no key at all)
Recognised ==
    \A k \in KeySet : Sent[k] = Absent \/ Sent[k] \in RecognisedValues[k]

\* C21: for every style configuration built from the recognised option
\* values, the Style record written by app.overlay_subtitles (font name,
\* size, primary and background colour, bold, italic, border mode, outline,
\* shadow, alignment code and the three margins) equals the one written by
\* helpers.convert_srt_to_ass.
C21_CopiesAgree ==
    (Recognised /\ BothResolved) => app_ass_style = ass_style

(***************************************************************************)
(* Muxing.  A disk maps the four paths of one overlay_subtitles call to    *)
(* "missing", "empty" (a file of size 0) or "data".  The encoder is the    *)
(* external ffmpeg process: its exit and what it leaves at the output path *)
(* are the environment's choice.                                           *)
(***************************************************************************)
Paths == {"input", "srt", "ass", "output"}

\* os.path.exists(path)
exists(d, path) == d[path] # "missing"

\* os.path.getsize(path) == 0
getsize_is_zero(d, path) == d[path] = "empty"

\* os.remove(path)
remove(d, path) == [d EXCEPT ![path] = "missing"]

\* the value True that both copies return
True == <<"True">>

\* subprocess.run(cmd, ..., timeout=300): the files after the process ended
\* or was killed
subprocess_run(d, enc) ==
    IF enc.output = "none" THEN d ELSE [d EXCEPT !["output"] = enc.output]

\* a finished call: what it returned or raised, whether the encoder was
\* spawned, whether the markup file was written, and the files it left
Call(result, spawned, ass_written, d) ==
    [result |-> result, spawned |-> spawned, ass_written |-> ass_written,
     disk |-> d]

\* helpers.overlay_subtitles(input_path, srt_path, output_path, ...)
helpers_overlay_subtitles(d, enc) ==
    IF ~exists(d, "input")
    THEN Call(<<"Overlay failed", "Input not found">>, FALSE, FALSE, d)
    ELSE IF ~exists(d, "srt")
    THEN Call(<<"Overlay failed", "SRT not found">>, FALSE, FALSE, d)
    ELSE LET d1 == [d EXCEPT !["ass"] = "data"]
             d2 == subprocess_run(d1, enc)
         IN  IF enc.exit = "timeout"
             THEN Call(<<"FFmpeg timeout">>, TRUE, TRUE, d2)
             ELSE IF enc.exit = "nonzero"
             THEN Call(<<"FFmpeg error">>, TRUE, TRUE, d2)
             ELSE IF ~exists(d2, "output") \/ getsize_is_zero(d2, "output")
             THEN Call(<<"Overlay failed", "FFmpeg output empty">>,
                       TRUE, TRUE, d2)
             ELSE Call(True, TRUE, TRUE, remove(d2, "ass"))

\* app.overlay_subtitles(input_path, srt_path, output_path, ...)
app_overlay_subtitles(d, enc) ==
    IF ~exists(d, "srt")
    THEN Call(<<"Subtitle overlay failed", "No such file or directory">>,
              FALSE, FALSE, d)
    ELSE LET d1 == [d EXCEPT !["ass"] = "data"]
             d2 == subprocess_run(d1, enc)
         IN  IF enc.exit = "timeout"
             THEN Call(<<"Subtitle overlay failed", "timed out">>,
                       TRUE, TRUE, d2)
             ELSE IF enc.exit = "nonzero"
             THEN Call(<<"Subtitle overlay failed", "FFmpeg failed">>,
                       TRUE, TRUE, d2)
             ELSE IF exists(d2, "output")
             THEN Call(True, TRUE, TRUE, remove(d2, "ass"))
             ELSE Call(<<"Subtitle overlay failed", "Output file not created">>,
                       TRUE, TRUE, d2)

\* process_video_task from the call of overlay_subtitles on: the status it
\* records and the files at that moment
embedding_stage(d, enc) ==
    LET c == app_overlay_subtitles(d, enc)
    IN  IF c.result = True /\ exists(c.disk, "output")
        THEN [status |-> "completed", disk |-> c.disk]
        ELSE [status |-> "failed", disk |-> c.disk]

Disks ==
    {d \in [Paths -> {"missing", "empty", "data"}] :
        /\ d["srt"] # "empty"
        /\ d["ass"] = "missing"
        /\ d["output"] = "missing"}

Encoders ==
    [exit : {"zero", "nonzero", "timeout"}, output : {"none", "empty", "data"}]

InitMux ==
    /\ disk \in Disks
    /\ encoder \in Encoders
    /\ helpers_overlay = None
    /\ app_overlay = None
    /\ task = None
    /\ TimeIdle
    /\ SrtIdle
    /\ StyleIdle
    /\ JobsIdle

HelpersOverlaySubtitles ==
    /\ helpers_overlay = None
    /\ helpers_overlay' = Some(helpers_overlay_subtitles(disk, encoder))
    /\ UNCHANGED <<disk, encoder, app_overlay, task,
                   timeVars, srtVars, styleVars, jobsVars>>

AppOverlaySubtitles ==
    /\ app_overlay = None
    /\ app_overlay' = Some(app_overlay_subtitles(disk, encoder))
    /\ UNCHANGED <<disk, encoder, helpers_overlay, task,
                   timeVars, srtVars, styleVars, jobsVars>>

EmbeddingStage ==
    /\ task = None
    /\ task' = Some(embedding_stage(disk, encoder))
    /\ UNCHANGED <<disk, encoder, helpers_overlay, app_overlay,
                   timeVars, srtVars, styleVars, jobsVars>>

NextMux == HelpersOverlaySubtitles \/ AppOverlaySubtitles \/ EmbeddingStage

SpecMux == InitMux /\ [][NextMux]_vars

(***************************************************************************)
(* Claims about muxing                                                     *)
(***************************************************************************)
\* the calls of either copy that have returned or raised
Calls == {c[1] : c \in {helpers_overlay, app_overlay} \ {None}}

Mentions(result, message) == \E i \in 1..Len(result) : result[i] = message

EncoderErrors == {"FFmpeg timeout", "FFmpeg error", "FFmpeg failed", "timed out"}

\* C12: with an input path that does not exist the call fails with the
\* input-not-found error, before the encoder is spawned and before any
\* markup file is written.
C12_MissingInputFailsEarly ==
    disk["input"] = "missing" =>
        \A c \in Calls :
            /\ Mentions(c.result, "Input not found")
            /\ ~c.spawned
            /\ ~c.ass_written

\* C13: when the encoder exits non-zero or times out the call fails with an
\* encoder error, no output video is left, and the markup file written for
\* the run is gone when the call returns.
C13_EncoderFailureCleansUp ==
    \A c \in Calls :
        (c.spawned /\ encoder.exit # "zero") =>
            /\ \E m \in EncoderErrors : Mentions(c.result, m)
            /\ ~exists(c.disk, "output")
            /\ ~exists(c.disk, "ass")

\* C14: when the encoder exits with status 0 but the output file is missing
\* or empty, overlay_subtitles raises and the job is not recorded as
\* completed; a completed job's output file exists and is not empty.
C14_EmptyOutputIsFailure ==
    /\ \A c \in Calls :
          (c.spawned /\ encoder.exit = "zero" /\ c.disk["output"] # "data")
              => c.result # True
    /\ task # None =>
          (task[1].status = "completed" => task[1].disk["output"] = "data")

(***************************************************************************)
(* The server.  Job ids and file names are character sequences, so that    *)
(* filename.startswith(job_id) is computed as the code computes it.  A     *)
(* dict is a sequence of [id, status] entries in insertion order.          *)
(***************************************************************************)
\* job_id in d
Has(d, id) == \E i \in 1..Len(d) : d[i].id = id

\* d[job_id]['status']
StatusOf(d, id) == (CHOOSE i \in 1..Len(d) : d[i].id = id)
                   \* keys are unique
StatusIn(d, id) == d[StatusOf(d, id)].status

\* d[job_id] = {'status': status, ...}
Put(d, id, status) ==
    IF Has(d, id)
    THEN [i \in 1..Len(d) |->
             IF d[i].id = id THEN [id |-> id, status |-> status] ELSE d[i]]
    ELSE Append(d, [id |-> id, status |-> status])

KeepOthers(d, id) ==
    LET Other(e) == e.id # id IN SelectSeq(d, Other)

\* d.pop(job_id, None), del d[job_id]
Pop(d, id) == KeepOthers(d, id)

\* a file of a job: f"{job_id}_{suffix}"
File(id, kind) == [id |-> id, kind |-> kind]

FileName(f) == f.id \o <<"_", f.kind>>

\* filename.startswith(job_id)
startswith(name, prefix) ==
    /\ Len(prefix) <= Len(name)
    /\ SubSeq(name, 1, Len(prefix)) = prefix

\* the files cleanup_job_files(job_id) removes
FilesOf(fs, job_id) == {f \in fs : startswith(FileName(f), job_id)}

\* threading.Lock with every acquire succeeding at once
can_acquire_always(lock) == TRUE

\* threading.Lock: acquire succeeds only when nobody holds the lock
can_acquire(lock) == lock = {}

Terminal == {"completed", "failed"}

\* cleanup_old_files keeps jobs_to_remove[:5]
KeptJobs == 5

\* jobs_to_remove[5:]
jobs_to_remove(d) ==
    LET IsTerminal(e) == e.status \in Terminal
        done == SelectSeq(d, IsTerminal)
    IN  [i \in 1..(IF Len(done) > KeptJobs THEN Len(done) - KeptJobs ELSE 0)
            |-> done[i + KeptJobs].id]

\* the job of this run, and the jobs that finished before it started
JobId == <<"a", "1">>

MaxOldJobs == 6

OldId(k) == <<"b", DigitChars[k + 1]>>

\* threads
Worker == JobId
Request == <<"request">>
Cleanup == <<"cleanup">>
Threads == {Worker, Request, Cleanup}

Usernames == {"u1", "u2"}

\* verify_token(token): the user name of a valid token, else None ("")
verify_token(token) == IF token \in Usernames THEN token ELSE ""

\* users[username]['history'].append(job_id) when the token names a user
append_history(us, token, id) ==
    LET username == verify_token(token)
    IN  IF username # "" /\ username \in DOMAIN us
        THEN [us EXCEPT ![username].history = Append(@, id)]
        ELSE us

\* list.remove(job_id): the first occurrence
remove_first(h, id) ==
    IF \E i \in 1..Len(h) : h[i] = id
    THEN LET k == CHOOSE i \in 1..Len(h) :
                      h[i] = id /\ \A m \in 1..(i - 1) : h[m] # id
         IN  SubSeq(h, 1, k - 1) \o SubSeq(h, k + 1, Len(h))
    ELSE h

InHistory(h, id) == \E i \in 1..Len(h) : h[i] = id

\* a thread's position and locals: at (program point), user and id (the
\* request's token and job id), path (the worker's filepath), ret and cjf_ret (where cleanup_old_files and
\* cleanup_job_files return to), todo (the rest of jobs_to_remove[5:]),
\* owned (the id was in the user's history when the request checked)
At(t) == pc[t].at

Goto(t, at) == [pc EXCEPT ![t].at = at]

Local(at) ==
    [at |-> at, user |-> "", id |-> <<>>, ret |-> "", cjf_ret |-> "",
     todo |-> <<>>, owned |-> FALSE, path |-> <<>>]

\* "with processing_lock:" entered at each of these points
LockPoints ==
    ("lock_transcribing" :> "set_transcribing") @@
    ("lock_generating" :> "set_generating") @@
    ("lock_embedding" :> "set_embedding") @@
    ("lock_completed" :> "set_completed") @@
    ("lock_failed" :> "set_failed") @@
    ("signup_lock" :> "signup_cs") @@
    ("login_lock" :> "login_cs") @@
    ("status_lock" :> "status_cs") @@
    ("profile_lock" :> "profile_cs") @@
    ("favorite_lock" :> "favorite_cs") @@
    ("delete_lock" :> "delete_cs") @@
    ("upload_lock" :> "upload_cs") @@
    ("youtube_lock" :> "youtube_cs") @@
    ("youtube_failed_lock" :> "youtube_failed_cs") @@
    ("cof_lock" :> "cof_cs") @@
    ("cjf_lock" :> "cjf_cs")

\* the points inside a "with processing_lock:" block
InsideLock ==
    {LockPoints[p] : p \in DOMAIN LockPoints} \cup {"cof_loop"}

\* the server leaves the variables of the other specifications alone
JobsFrame == UNCHANGED <<timeVars, srtVars, styleVars, muxVars>>

\* processing_lock.acquire(), by any thread
Acquire(t) ==
    /\ At(t) \in DOMAIN LockPoints
    /\ can_acquire(processing_lock)
    /\ processing_lock' = processing_lock \cup {t}
    /\ pc' = Goto(t, LockPoints[At(t)])
    /\ UNCHANGED <<job_status, users, user_jobs, files>>
    /\ JobsFrame

Release(t) == processing_lock' = processing_lock \ {t}

(***************************************************************************)
(* process_video_task(job_id, filepath, filename, is_youtube, token, ...)  *)
(***************************************************************************)
srt_path == File(JobId, "captions.srt")
ass_path == File(JobId, "captions.ass")
output_path == File(JobId, "with_subtitles.mp4")

\* a worker that starts at the embedding stage
StartWorker_at_embedding(token, filepath) ==
    [Local("lock_embedding") EXCEPT !.user = token, !.path = filepath]

\* threading.Thread(target=process_video_task, ...).start()
StartWorker(token, filepath) ==
    [Local("lock_transcribing") EXCEPT !.user = token, !.path = filepath]

\* job_status[job_id] = {'status': 'transcribing', ...}
SetTranscribing ==
    /\ At(Worker) = "set_transcribing"
    /\ job_status' = Put(job_status, JobId, "transcribing")
    /\ Release(Worker)
    /\ pc' = Goto(Worker, "transcribe")
    /\ UNCHANGED <<users, user_jobs, files>>
    /\ JobsFrame

\* whisper_model.transcribe(filepath): a result, or an exception
Transcribe ==
    /\ At(Worker) = "transcribe"
    /\ \E ok \in BOOLEAN :
          pc' = Goto(Worker, IF ok THEN "lock_generating" ELSE "lock_failed")
    /\ UNCHANGED <<job_status, users, user_jobs, processing_lock, files>>
    /\ JobsFrame

SetGenerating ==
    /\ At(Worker) = "set_generating"
    /\ job_status' = Put(job_status, JobId, "generating_captions")
    /\ Release(Worker)
    /\ pc' = Goto(Worker, "generate_srt")
    /\ UNCHANGED <<users, user_jobs, files>>
    /\ JobsFrame

\* generate_srt(result["segments"], srt_path): the file is written and closed
WriteSrt ==
    /\ At(Worker) = "generate_srt"
    /\ files' = files \cup {srt_path}
    /\ pc' = Goto(Worker, "lock_embedding")
    /\ UNCHANGED <<job_status, users, user_jobs, processing_lock>>
    /\ JobsFrame

SetEmbedding ==
    /\ At(Worker) = "set_embedding"
    /\ job_status' = Put(job_status, JobId, "embedding_subtitles")
    /\ Release(Worker)
    /\ pc' = Goto(Worker, "write_ass")
    /\ UNCHANGED <<users, user_jobs, files>>
    /\ JobsFrame

\* overlay_subtitles up to the write of the markup file; open(srt_path)
\* raises when the caption file is gone
WriteAss ==
    /\ At(Worker) = "write_ass"
    /\ IF srt_path \in files
       THEN /\ files' = files \cup {ass_path}
            /\ pc' = Goto(Worker, "encode")
       ELSE /\ files' = files
            /\ pc' = Goto(Worker, "lock_failed")
    /\ UNCHANGED <<job_status, users, user_jobs, processing_lock>>
    /\ JobsFrame

\* overlay_subtitles from subprocess.run on, and the existence test of
\* process_video_task; the encoder fails when its input file or the markup
\* file is gone
Encode ==
    /\ At(Worker) = "encode"
    /\ \E exit \in {"zero", "nonzero", "timeout"} :
          IF exit = "zero" /\ {pc[Worker].path, ass_path} \subseteq files
          THEN /\ files' = (files \cup {output_path}) \ {ass_path}
               /\ pc' = Goto(Worker, "lock_completed")
          ELSE /\ files' = files
               /\ pc' = Goto(Worker, "lock_failed")
    /\ UNCHANGED <<job_status, users, user_jobs, processing_lock>>
    /\ JobsFrame

SetCompleted ==
    /\ At(Worker) = "set_completed"
    /\ job_status' = Put(job_status, JobId, "completed")
    /\ user_jobs' = Put(user_jobs, JobId, "completed")
    /\ users' = append_history(users, pc[Worker].user, JobId)
    /\ Release(Worker)
    /\ pc' = Goto(Worker, "remove_inputs")
    /\ UNCHANGED files
    /\ JobsFrame

\* os.remove(srt_path); os.remove(filepath)
RemoveInputs ==
    /\ At(Worker) = "remove_inputs"
    /\ files' = files \ {srt_path, pc[Worker].path}
    /\ pc' = Goto(Worker, "done")
    /\ UNCHANGED <<job_status, users, user_jobs, processing_lock>>
    /\ JobsFrame

\* the except branch
SetFailed ==
    /\ At(Worker) = "set_failed"
    /\ job_status' = Put(job_status, JobId, "failed")
    /\ user_jobs' = Put(user_jobs, JobId, "failed")
    /\ users' = append_history(users, pc[Worker].user, JobId)
    /\ Release(Worker)
    /\ pc' = Goto(Worker, "done")
    /\ UNCHANGED files
    /\ JobsFrame

(***************************************************************************)
(* cleanup_old_files and cleanup_job_files, run by thread t                *)
(***************************************************************************)
\* jobs_to_remove is built under the lock
CofCs(t) ==
    /\ At(t) = "cof_cs"
    /\ pc' = [pc EXCEPT ![t].todo = jobs_to_remove(job_status),
                        ![t].at = "cof_loop"]
    /\ UNCHANGED <<job_status, users, user_jobs, processing_lock, files>>
    /\ JobsFrame

\* for job_id in jobs_to_remove[5:]: cleanup_job_files(job_id), still
\* inside "with processing_lock"
CofLoop(t) ==
    /\ At(t) = "cof_loop"
    /\ IF pc[t].todo = <<>>
       THEN /\ Release(t)
            /\ pc' = Goto(t, pc[t].ret)
       ELSE /\ processing_lock' = processing_lock
            /\ pc' = [pc EXCEPT ![t].id = Head(pc[t].todo),
                                ![t].todo = Tail(pc[t].todo),
                                ![t].cjf_ret = "cof_loop",
                                ![t].at = "cjf_lock"]
    /\ UNCHANGED <<job_status, users, user_jobs, files>>
    /\ JobsFrame

\* cleanup_job_files: job_status.pop(job_id, None); user_jobs.pop(...)
CjfCs(t) ==
    /\ At(t) = "cjf_cs"
    /\ job_status' = Pop(job_status, pc[t].id)
    /\ user_jobs' = Pop(user_jobs, pc[t].id)
    /\ Release(t)
    /\ pc' = Goto(t, "cjf_files")
    /\ UNCHANGED <<users, files>>
    /\ JobsFrame

\* cleanup_job_files: remove every file whose name starts with job_id
CjfFiles(t) ==
    /\ At(t) = "cjf_files"
    /\ files' = files \ FilesOf(files, pc[t].id)
    /\ pc' = IF pc[t].cjf_ret = "idle"
             THEN [pc EXCEPT ![t] = Local("idle")]
             ELSE Goto(t, pc[t].cjf_ret)
    /\ UNCHANGED <<job_status, users, user_jobs, processing_lock>>
    /\ JobsFrame

\* cleanup_loop: time.sleep(1800); cleanup_old_files()
CleanupWake ==
    /\ At(Cleanup) = "sleep"
    /\ pc' = [pc EXCEPT ![Cleanup] = [Local("cof_lock") EXCEPT !.ret = "sleep"]]
    /\ UNCHANGED <<job_status, users, user_jobs, processing_lock, files>>
    /\ JobsFrame

(***************************************************************************)
(* Route handlers, run by the request thread                               *)
(***************************************************************************)
\* the job ids a client puts in a URL: the running job, and a string that is
\* only the beginning of a job id
RequestIds == {JobId, <<"a">>}

\* the tokens in circulation: one per registered user, and no token
Tokens == DOMAIN users \cup {""}

ReceiveThen(at, user, id, ret) ==
    /\ At(Request) = "idle"
    /\ pc' = [pc EXCEPT ![Request] =
                 [Local(at) EXCEPT !.user = user, !.id = id, !.ret = ret]]
    /\ UNCHANGED <<job_status, users, user_jobs, processing_lock, files>>
    /\ JobsFrame

Receive(at, user, id) == ReceiveThen(at, user, id, "")

\* return jsonify(...), leaving the "with" block
Respond ==
    /\ Release(Request)
    /\ pc' = [pc EXCEPT ![Request] = Local("idle")]

\* POST /signup
ReceiveSignup == \E u \in Usernames : Receive("signup_lock", u, <<>>)

SignupCs ==
    /\ At(Request) = "signup_cs"
    /\ users' = IF pc[Request].user \in DOMAIN users THEN users
                ELSE users @@ (pc[Request].user :>
                                  [history |-> <<>>, favorites |-> {}])
    /\ Respond
    /\ UNCHANGED <<job_status, user_jobs, files>>
    /\ JobsFrame

\* POST /login; what a handler only reads leaves no trace in the state, so
\* the request's parameters are not kept
ReceiveLogin == Receive("login_lock", "", <<>>)

LoginCs ==
    /\ At(Request) = "login_cs"
    /\ Respond
    /\ UNCHANGED <<job_status, users, user_jobs, files>>
    /\ JobsFrame

\* GET /status/<job_id>
ReceiveStatus == Receive("status_lock", "", <<>>)

StatusCs ==
    /\ At(Request) = "status_cs"
    /\ Respond
    /\ UNCHANGED <<job_status, users, user_jobs, files>>
    /\ JobsFrame

\* GET /profile
ReceiveProfile == Receive("profile_lock", "", <<>>)

ProfileCs ==
    /\ At(Request) = "profile_cs"
    /\ Respond
    /\ UNCHANGED <<job_status, users, user_jobs, files>>
    /\ JobsFrame

\* POST /history/<job_id>/favorite
ReceiveFavorite ==
    \E u \in DOMAIN users, id \in RequestIds : Receive("favorite_lock", u, id)

toggle_favorite(user, id) ==
    IF ~InHistory(user.history, id) THEN user
    ELSE IF id \in user.favorites
    THEN [user EXCEPT !.favorites = @ \ {id}]
    ELSE [user EXCEPT !.favorites = @ \cup {id}]

FavoriteCs ==
    /\ At(Request) = "favorite_cs"
    /\ users' = [users EXCEPT ![pc[Request].user] =
                    toggle_favorite(@, pc[Request].id)]
    /\ Respond
    /\ UNCHANGED <<job_status, user_jobs, files>>
    /\ JobsFrame

\* DELETE /history/<job_id>
ReceiveDelete ==
    \E u \in DOMAIN users, id \in RequestIds : Receive("delete_lock", u, id)

\* the "with processing_lock" block of delete_history_item, then the call
\* of cleanup_job_files(job_id); a token in circulation names a registered
\* user, so users.get(username) finds one
DeleteCs ==
    /\ At(Request) = "delete_cs"
    /\ LET u == pc[Request].user
           id == pc[Request].id
       IN  /\ users' = [users EXCEPT
                           ![u].history = remove_first(@, id),
                           ![u].favorites = @ \ {id}]
           /\ job_status' = Pop(job_status, id)
           /\ user_jobs' = Pop(user_jobs, id)
           /\ pc' = [pc EXCEPT
                        ![Request].owned = InHistory(users[u].history, id),
                        ![Request].cjf_ret = "idle",
                        ![Request].at = "cjf_lock"]
    /\ Release(Request)
    /\ UNCHANGED files
    /\ JobsFrame

\* POST /upload and POST /transcribe start with cleanup_old_files() when the
\* storage is nearly full
ReceiveUpload ==
    /\ At(Worker) = "unborn"
    /\ \E token \in Tokens, full \in BOOLEAN :
          IF full
          THEN ReceiveThen("cof_lock", token, JobId, "upload_save")
          ELSE Receive("upload_save", token, JobId)

\* video.save(filepath)
UploadSave ==
    /\ At(Request) = "upload_save"
    /\ files' = files \cup {File(JobId, "video.mp4")}
    /\ pc' = Goto(Request, "upload_lock")
    /\ UNCHANGED <<job_status, users, user_jobs, processing_lock>>
    /\ JobsFrame

UploadCs ==
    /\ At(Request) = "upload_cs"
    /\ job_status' = Put(job_status, JobId, "uploaded")
    /\ Release(Request)
    /\ pc' = [pc EXCEPT
                 ![Request] = Local("idle"),
                 ![Worker] = StartWorker(pc[Request].user,
                                         File(JobId, "video.mp4"))]
    /\ UNCHANGED <<users, user_jobs, files>>
    /\ JobsFrame

\* POST /transcribe
ReceiveYoutube ==
    /\ At(Worker) = "unborn"
    /\ \E token \in Tokens, full \in BOOLEAN :
          IF full
          THEN ReceiveThen("cof_lock", token, JobId, "youtube_lock")
          ELSE Receive("youtube_lock", token, JobId)

YoutubeCs ==
    /\ At(Request) = "youtube_cs"
    /\ job_status' = Put(job_status, JobId, "downloading")
    /\ Release(Request)
    /\ pc' = Goto(Request, "youtube_download")
    /\ UNCHANGED <<users, user_jobs, files>>
    /\ JobsFrame

\* download_youtube_video(youtube_url, job_id), then the worker is started;
\* a failed download leads to the except branch
YoutubeDownload ==
    /\ At(Request) = "youtube_download"
    /\ \E ok \in BOOLEAN :
          IF ok
          THEN /\ files' = files \cup {File(JobId, "youtube.mp4")}
               /\ pc' = [pc EXCEPT
                            ![Request] = Local("idle"),
                            ![Worker] = StartWorker(pc[Request].user,
                                            File(JobId, "youtube.mp4"))]
          ELSE /\ files' = files
               /\ pc' = [pc EXCEPT ![Request].at = "youtube_failed_lock",
                                   ![Worker].at = "never"]
    /\ UNCHANGED <<job_status, users, user_jobs, processing_lock>>
    /\ JobsFrame

YoutubeFailedCs ==
    /\ At(Request) = "youtube_failed_cs"
    /\ job_status' = Put(job_status, JobId, "failed")
    /\ Respond
    /\ UNCHANGED <<users, user_jobs, files>>
    /\ JobsFrame

(***************************************************************************)
(* SpecJobs                                                                *)
(***************************************************************************)
\* the finished jobs the run starts with: none, as many as cleanup_old_files
\* keeps, or more
OldCounts == {0, KeptJobs, MaxOldJobs}

OldJobs(n) == [k \in 1..n |-> [id |-> OldId(k), status |-> "completed"]]

InitJobs ==
    /\ \E n \in OldCounts :
          /\ job_status = OldJobs(n)
          /\ user_jobs = OldJobs(n)
          /\ files = {File(OldId(k), "with_subtitles.mp4") : k \in 1..n}
          /\ users = ("u1" :> [history |-> IF n > 0 THEN <<OldId(1)>> ELSE <<>>,
                               favorites |-> {}])
    /\ processing_lock = {}
    /\ pc = (Worker :> Local("unborn")) @@ (Request :> Local("idle")) @@
            (Cleanup :> Local("sleep"))
    /\ TimeIdle
    /\ SrtIdle
    /\ StyleIdle
    /\ MuxIdle

WorkerStep ==
    \/ Acquire(Worker)
    \/ SetTranscribing \/ Transcribe \/ SetGenerating \/ WriteSrt
    \/ SetEmbedding \/ WriteAss \/ Encode \/ SetCompleted \/ RemoveInputs
    \/ SetFailed

CleanupStep ==
    \/ CleanupWake \/ Acquire(Cleanup) \/ CofCs(Cleanup) \/ CofLoop(Cleanup)
    \/ CjfCs(Cleanup) \/ CjfFiles(Cleanup)

NextJobs ==
    \/ \E t \in Threads : Acquire(t)
    \/ SetTranscribing \/ Transcribe \/ SetGenerating \/ WriteSrt
    \/ SetEmbedding \/ WriteAss \/ Encode \/ SetCompleted \/ RemoveInputs
    \/ SetFailed
    \/ CleanupWake
    \/ \E t \in {Request, Cleanup} : CofCs(t)
    \/ \E t \in {Request, Cleanup} : CofLoop(t)
    \/ \E t \in {Request, Cleanup} : CjfCs(t)
    \/ \E t \in {Request, Cleanup} : CjfFiles(t)
    \/ ReceiveSignup \/ SignupCs \/ ReceiveLogin \/ LoginCs
    \/ ReceiveStatus \/ StatusCs \/ ReceiveProfile \/ ProfileCs
    \/ ReceiveFavorite \/ FavoriteCs \/ ReceiveDelete \/ DeleteCs
    \/ ReceiveUpload \/ UploadSave \/ UploadCs
    \/ ReceiveYoutube \/ YoutubeCs \/ YoutubeDownload \/ YoutubeFailedCs

SpecJobs == InitJobs /\ [][NextJobs]_vars

\* the steps of the request thread that continue a request already received
RequestStep ==
    \/ Acquire(Request)
    \/ SignupCs \/ LoginCs \/ StatusCs \/ ProfileCs \/ FavoriteCs
    \/ DeleteCs \/ UploadSave \/ UploadCs
    \/ YoutubeCs \/ YoutubeDownload \/ YoutubeFailedCs
    \/ CofCs(Request) \/ CofLoop(Request)
    \/ CjfCs(Request) \/ CjfFiles(Request)

\* Every thread that can take a step keeps being scheduled, and a thread
\* that finds the lock free again and again gets it in the end; external
\* calls (transcription, download, the encoder with its 300 s timeout)
\* return.  Nothing is assumed about which requests arrive.
SpecJobsFair ==
    /\ SpecJobs
    /\ SF_vars(WorkerStep)
    /\ SF_vars(CleanupStep)
    /\ SF_vars(RequestStep)

(***************************************************************************)
(* Claims about the server                                                 *)
(***************************************************************************)
Started == At(Worker) \notin {"unborn", "never"}

WorkerEnded == At(Worker) \in {"remove_inputs", "done"}

JobIsTerminal(d) == Has(d, JobId) /\ StatusIn(d, JobId) \in Terminal

\* C15: a job whose worker has started eventually gets a terminal status,
\* completed or failed, whatever else runs concurrently: the worker reaches
\* its end, and the step that ends its pipeline records the terminal status.
C15_JobEventuallyTerminal ==
    /\ Started ~> WorkerEnded
    /\ [][(~WorkerEnded /\ WorkerEnded') => JobIsTerminal(job_status')]_vars

\* thread t is inside a call of cleanup_old_files
InCleanup(t) ==
    \/ At(t) \in {"cof_lock", "cof_cs", "cof_loop"}
    \/ At(t) \in {"cjf_lock", "cjf_cs", "cjf_files"}
          /\ pc[t].cjf_ret = "cof_loop"

\* C19: every call of cleanup_old_files returns and leaves processing_lock
\* released, however many finished jobs job_status holds.
C19_CleanupReturns ==
    \A t \in {Request, Cleanup} :
        InCleanup(t) ~> (~InCleanup(t) /\ t \notin processing_lock)

\* the step is taken by thread t
StepOf(t) == pc'[t] # pc[t]

RegistriesChange ==
    job_status' # job_status \/ users' # users \/ user_jobs' # user_jobs

\* C16: every access to job_status, users and user_jobs is made by a thread
\* that holds processing_lock, and at most one thread holds the lock.
C16_RegistriesUnderLock ==
    /\ [](Cardinality(processing_lock) <= 1)
    /\ [](\A t \in Threads : At(t) \in InsideLock => t \in processing_lock)
    /\ [][RegistriesChange =>
             \E t \in processing_lock : StepOf(t) /\ At(t) \in InsideLock]_vars

\* the worker is about to write the final status under the lock while the
\* request thread waits for the lock
C16_Witness ==
    /\ processing_lock = {Worker}
    /\ At(Worker) = "set_completed"
    /\ At(Request) \in DOMAIN LockPoints

StatusRank ==
    ("uploaded" :> 0) @@ ("downloading" :> 0) @@ ("transcribing" :> 1) @@
    ("generating_captions" :> 2) @@ ("embedding_subtitles" :> 3) @@
    ("completed" :> 4) @@ ("failed" :> 4)

\* the worker's program points in program order; the except branch is
\* entered from any point before the final status
PointRank ==
    ("lock_transcribing" :> 1) @@ ("set_transcribing" :> 2) @@
    ("transcribe" :> 3) @@ ("lock_generating" :> 4) @@
    ("set_generating" :> 5) @@ ("generate_srt" :> 6) @@
    ("lock_embedding" :> 7) @@ ("set_embedding" :> 8) @@
    ("write_ass" :> 9) @@ ("encode" :> 10) @@ ("lock_completed" :> 11) @@
    ("set_completed" :> 12) @@ ("remove_inputs" :> 13) @@ ("done" :> 14)

Forward(old, new) ==
    /\ old \notin Terminal
    /\ new = "failed" \/ StatusRank[new] = StatusRank[old] + 1

\* C17: within one job the status only moves forward, transcribing,
\* generating_captions, embedding_subtitles, completed, or to failed; the
\* stages run one after the other, the caption file is written before markup
\* compilation starts and the markup file before the encoder is spawned; and
\* after completed or failed the worker sets no other status.
C17_StagesInOrder ==
    /\ [][(Has(job_status, JobId) /\ Has(job_status', JobId)
             /\ StatusIn(job_status', JobId) # StatusIn(job_status, JobId))
            => Forward(StatusIn(job_status, JobId),
                       StatusIn(job_status', JobId))]_vars
    /\ [][(StepOf(Worker) /\ At(Worker) \in DOMAIN PointRank) =>
             \/ /\ pc'[Worker].at \in DOMAIN PointRank
                /\ PointRank[pc'[Worker].at] = PointRank[At(Worker)] + 1
             \/ /\ pc'[Worker].at = "lock_failed"
                /\ PointRank[At(Worker)] < PointRank["lock_completed"]]_vars
    /\ [][(StepOf(Worker) /\ pc'[Worker].at = "lock_embedding")
            => srt_path \in files']_vars
    /\ [][(StepOf(Worker) /\ pc'[Worker].at = "encode")
            => {srt_path, ass_path} \subseteq files']_vars
    /\ [][(StepOf(Worker) /\ output_path \in files' \ files)
            => At(Worker) = "encode" /\ ass_path \in files]_vars
    /\ [][(StepOf(Worker) /\ WorkerEnded) => job_status' = job_status]_vars

\* the job went through every stage and is completed
C17_Witness ==
    /\ At(Worker) = "done"
    /\ JobIsTerminal(job_status)
    /\ StatusIn(job_status, JobId) = "completed"
    /\ output_path \in files

\* the job id a thread is acting for
ActingId(t) == IF t = Worker THEN JobId ELSE pc[t].id

\* C18: what is done for one job id creates, overwrites and deletes only
\* files of that job, never a file that belongs to another job.
C18_FilesOfOwnJobOnly ==
    [][\A t \in Threads : StepOf(t) =>
          \A f \in (files \ files') \cup (files' \ files) :
              f.id = ActingId(t)]_vars

\* the request thread is inside DELETE /history/<job_id> for a job id that
\* was not in the caller's history when the handler looked
DeletingForeign ==
    \/ /\ At(Request) = "delete_cs"
       /\ ~InHistory(users[pc[Request].user].history, pc[Request].id)
    \/ /\ At(Request) \in {"cjf_lock", "cjf_cs", "cjf_files"}
       /\ pc[Request].cjf_ret = "idle"
       /\ ~pc[Request].owned

\* C20: a DELETE /history/<job_id> by a user whose history does not contain
\* job_id leaves job_status, user_jobs, every user's history and favorites
\* and all files unchanged.
C20_DeleteOnlyOwnJobs ==
    [][(DeletingForeign /\ StepOf(Request))
         => UNCHANGED <<job_status, user_jobs, users, files>>]_vars

====
